---- MODULE Spec2Model ----
(***************************************************************************)
(* ID3 decision tree classifier of src/decisionTree.cpp.                   *)
(*                                                                         *)
(* A std::string is a tuple of character codes, so that operator== is      *)
(* tuple equality and operator< (the order std::map iterates in) is the    *)
(* lexicographic order on codes.  Row and column positions are 0-based as  *)
(* in the source.  The object `this` is the record of the four members.    *)
(***************************************************************************)
EXTENDS Integers, Sequences, FiniteSets, TLC

VARIABLES
    data,          \* DecisionTree::data          (line 46)
    headers,       \* DecisionTree::headers       (line 47)
    targetColumn,  \* DecisionTree::targetColumn  (line 48)
    root,          \* DecisionTree::root          (line 49)
    pc,            \* position of the caller (main, lines 407-475)
    filename,      \* main's filename, as the file it names (line 410)
    targetName,    \* main's targetColumn                   (line 410)
    lastFile,      \* history: file given to the last train call
    lastTarget,    \* history: target given to the last train call
    result,        \* history: what the last train call returned
    failedBefore,  \* history: no train call before the last one returned true
    instance,      \* the instance of the last prediction request
    prediction     \* what the last prediction request printed

vars == <<data, headers, targetColumn, root, pc, filename, targetName, lastFile, lastTarget, result,
          failedBefore, instance, prediction>>

---------------------------------------------------------------------------
\* Bounds of the model.

\* rows of the table given to the single training of SpecTrain
MaxRows == 4
\* rows of the table given to main() in Spec
MaxMainRows == 2
\* rows a classifier accumulates over all its train calls in SpecApi
MaxApiRows == 2
\* call depth of buildTree at which the stack is taken to be exhausted
RecursionLimit == 6

---------------------------------------------------------------------------
\* Strings.

sEmpty == <<>>
sF == <<102>>
sG == <<103>>
sT == <<116>>
sX == <<120>>
sA == <<97>>
sB == <<98>>
sUpperA == <<65>>
sUnknown == <<85, 110, 107, 110, 111, 119, 110>>
sunknown == <<117, 110, 107, 110, 111, 119, 110>>

\* std::string operator<
StrLess(a, b) ==
    \E i \in 1..(Len(a) + 1) :
        /\ \A j \in 1..(i - 1) : j <= Len(b) /\ a[j] = b[j]
        /\ \/ i = Len(a) + 1 /\ Len(b) >= i
           \/ i <= Len(a) /\ i <= Len(b) /\ a[i] < b[i]

\* the keys of a std::map in iteration order
RECURSIVE mapOrder(_)
mapOrder(keys) ==
    IF keys = {} THEN <<>>
    ELSE LET least == CHOOSE k \in keys : \A o \in keys \ {k} : StrLess(k, o)
         IN  <<least>> \o mapOrder(keys \ {least})

\* the distinct elements of a sequence in order of first occurrence
RECURSIVE firstSeen(_)
firstSeen(s) ==
    IF s = <<>> THEN <<>>
    ELSE LET front == firstSeen(SubSeq(s, 1, Len(s) - 1))
             x == s[Len(s)]
         IN  IF \E k \in 1..Len(front) : front[k] = x THEN front
             ELSE Append(front, x)

Range(s) == {s[k] : k \in 1..Len(s)}

RECURSIVE Gcd(_, _)
Gcd(a, b) == IF b = 0 THEN a ELSE Gcd(b, a % b)

RECURSIVE Pow(_, _)
Pow(b, e) == IF e = 0 THEN 1 ELSE b * Pow(b, e - 1)

RECURSIVE Product(_)
Product(s) == IF s = <<>> THEN 1 ELSE Head(s) * Product(Tail(s))

---------------------------------------------------------------------------
\* The inputs: files as the sequence of their lines, each already split
\* into trimmed cells (lines 64-76), the first being the header.

Values == {sA, sB}
Rows == {<<x, y, z>> : x \in Values, y \in Values, z \in Values}
Headers == {<<sF, sG, sT>>, <<sG, sT, sF>>, <<sEmpty, sG, sT>>}
Targets == {sT, sX}

RowSeqs(n) == UNION {[1..k -> Rows] : k \in 0..n}

Unreadable == [readable |-> FALSE, lines |-> <<>>]

Files(n) ==
    {Unreadable, [readable |-> TRUE, lines |-> <<>>]}
    \cup {[readable |-> TRUE, lines |-> <<h>> \o rows] :
              h \in Headers, rows \in RowSeqs(n)}

InstanceValues == {sA, sB, sUpperA}
Instances ==
    UNION {[keys -> InstanceValues] : keys \in SUBSET {sF, sG}}
ApiInstances == {<<>>, [k \in {sF, sG} |-> sA]}

---------------------------------------------------------------------------
\* struct TreeNode.  builtFrom, builtWith and depth record the arguments
\* and the call depth of the buildTree call that made the node.

NullNode == [null |-> TRUE]

TreeNode(indices, usedFeatures, depth) ==
    [feature |-> sEmpty, value |-> sEmpty, prediction |-> sEmpty,
     isLeaf |-> FALSE, children |-> <<>>,
     builtFrom |-> indices, builtWith |-> usedFeatures, depth |-> depth]

---------------------------------------------------------------------------
\* class DecisionTree.

This == [data |-> data, headers |-> headers, targetColumn |-> targetColumn,
         root |-> root]

cell(this, idx, col) == this.data[idx + 1][col + 1]

loadCSV(this, file) ==
    IF ~file.readable
    THEN [ok |-> FALSE, data |-> this.data, headers |-> this.headers]
    ELSE [ok |-> TRUE,
          data |-> IF Len(file.lines) > 1
                   THEN this.data \o Tail(file.lines) ELSE this.data,
          headers |-> IF Len(file.lines) > 0
                      THEN file.lines[1] ELSE this.headers]

getColumnIndex(this, columnName) ==
    LET found == {k \in 1..Len(this.headers) : this.headers[k] = columnName}
    IN  IF found = {} THEN -1
        ELSE (CHOOSE k \in found : \A o \in found : k <= o) - 1

\* A double that is an entropy or a gain over n rows is kept exactly, as the
\* rational 2^(n * x): n * entropy = log2(n^n / prod_c n_c^n_c).  Two gains
\* over the same rows compare as these rationals do.
Ratio(num, den) ==
    LET g == Gcd(num, den) IN [num |-> num \div g, den |-> den \div g]

\* the initial bestGain, -1.0: below every gain, which is never below 0
GainMinusOne == [num |-> 0, den |-> 1]

\* gain > bestGain (common factors are cancelled before cross-multiplying)
GainGreater(gain, bestGain) ==
    LET n == Gcd(gain.num, bestGain.num)
        d == Gcd(gain.den, bestGain.den)
    IN  (gain.num \div n) * (bestGain.den \div d)
            > (bestGain.num \div n) * (gain.den \div d)

\* counts[data[idx][targetIdx]]++ over indices: the count of one class
classCount(this, indices, targetIdx, class) ==
    Cardinality({k \in 1..Len(indices) : cell(this, indices[k], targetIdx) = class})

classesOf(this, indices, targetIdx) ==
    {cell(this, indices[k], targetIdx) : k \in 1..Len(indices)}

calculateEntropy(this, indices) ==
    IF indices = <<>> THEN Ratio(1, 1)
    ELSE LET targetIdx == getColumnIndex(this, this.targetColumn)
             keys == mapOrder(classesOf(this, indices, targetIdx))
             total == Len(indices)
             terms == [k \in 1..Len(keys) |->
                          LET n == classCount(this, indices, targetIdx, keys[k])
                          IN  Pow(n, n)]
         IN  Ratio(Pow(total, total), Product(terms))

\* groups[data[idx][featureIdx]].push_back(idx) over indices: one group
groupOf(this, indices, featureIdx, key) ==
    SelectSeq(indices, LAMBDA idx : cell(this, idx, featureIdx) = key)

\* mutation: the groups are visited in order of first occurrence in indices
groupKeysFirstSeen(this, indices, featureIdx) ==
    firstSeen([k \in 1..Len(indices) |-> cell(this, indices[k], featureIdx)])

\* mutation: the groups are keyed by the values of all rows of the table
groupKeysAllRows(this, indices, featureIdx) ==
    mapOrder({cell(this, k - 1, featureIdx) : k \in 1..Len(this.data)})

\* the keys of groups, in the order the range-for over the std::map visits them
groupKeys(this, indices, featureIdx) ==
    mapOrder({cell(this, indices[k], featureIdx) : k \in 1..Len(indices)})

calculateInformationGain(this, indices, feature) ==
    LET parentEntropy == calculateEntropy(this, indices)
        featureIdx == getColumnIndex(this, feature)
        keys == groupKeys(this, indices, featureIdx)
        parts == [k \in 1..Len(keys) |->
                     calculateEntropy(this, groupOf(this, indices, featureIdx, keys[k]))]
        weightedNum == Product([k \in 1..Len(keys) |-> parts[k].num])
        weightedDen == Product([k \in 1..Len(keys) |-> parts[k].den])
    IN  Ratio(parentEntropy.num * weightedDen, parentEntropy.den * weightedNum)

RECURSIVE findBestFeatureLoop(_, _, _, _, _, _)
findBestFeatureLoop(this, indices, usedFeatures, i, bestFeature, bestGain) ==
    IF i > Len(this.headers) THEN bestFeature
    ELSE LET feature == this.headers[i] IN
         IF feature # this.targetColumn /\ feature \notin usedFeatures
         THEN LET gain == calculateInformationGain(this, indices, feature) IN
              IF GainGreater(gain, bestGain)
              THEN findBestFeatureLoop(this, indices, usedFeatures, i + 1, feature, gain)
              ELSE findBestFeatureLoop(this, indices, usedFeatures, i + 1,
                                       bestFeature, bestGain)
         ELSE findBestFeatureLoop(this, indices, usedFeatures, i + 1,
                                  bestFeature, bestGain)

\* mutation: the used features are not skipped
findBestFeatureIgnoresUsed(this, indices, usedFeatures) ==
    findBestFeatureLoop(this, indices, {}, 1, sEmpty, GainMinusOne)

findBestFeature(this, indices, usedFeatures) ==
    findBestFeatureLoop(this, indices, usedFeatures, 1, sEmpty, GainMinusOne)

RECURSIVE mostCommonLoop(_, _, _, _, _, _, _)
mostCommonLoop(this, indices, targetIdx, keys, k, mostCommon, maxCount) ==
    IF k > Len(keys) THEN mostCommon
    ELSE LET n == classCount(this, indices, targetIdx, keys[k]) IN
         IF n > maxCount
         THEN mostCommonLoop(this, indices, targetIdx, keys, k + 1, keys[k], n)
         ELSE mostCommonLoop(this, indices, targetIdx, keys, k + 1, mostCommon, maxCount)

\* mutation: the counts are visited in order of first occurrence in indices
getMostCommonClassFirstSeen(this, indices) ==
    LET targetIdx == getColumnIndex(this, this.targetColumn)
        keys == firstSeen([k \in 1..Len(indices) |-> cell(this, indices[k], targetIdx)])
    IN  mostCommonLoop(this, indices, targetIdx, keys, 1, sEmpty, 0)

getMostCommonClass(this, indices) ==
    LET targetIdx == getColumnIndex(this, this.targetColumn)
        keys == mapOrder(classesOf(this, indices, targetIdx))
    IN  mostCommonLoop(this, indices, targetIdx, keys, 1, sEmpty, 0)

allSameClass(this, indices) ==
    IF indices = <<>> THEN TRUE
    ELSE LET targetIdx == getColumnIndex(this, this.targetColumn)
             firstClass == cell(this, indices[1], targetIdx)
         IN  \A k \in 1..Len(indices) : cell(this, indices[k], targetIdx) = firstClass

\* usedFeatures.insert(bestFeature)
\* mutation: the insert is forgotten
insertUsedForgotten(usedFeatures, bestFeature) == usedFeatures

insertUsed(usedFeatures, bestFeature) == usedFeatures \cup {bestFeature}

RECURSIVE buildTreeAt(_, _, _, _)
buildTreeAt(this, indices, usedFeatures, depth) ==
    LET node == TreeNode(indices, usedFeatures, depth) IN
    IF depth > RecursionLimit THEN node
    ELSE IF indices = <<>>
    THEN [node EXCEPT !.isLeaf = TRUE, !.prediction = sUnknown]
    ELSE IF allSameClass(this, indices)
    THEN [node EXCEPT !.isLeaf = TRUE,
                      !.prediction = cell(this, indices[1],
                                          getColumnIndex(this, this.targetColumn))]
    ELSE LET bestFeature == findBestFeature(this, indices, usedFeatures) IN
         IF bestFeature = sEmpty
         THEN [node EXCEPT !.isLeaf = TRUE,
                           !.prediction = getMostCommonClass(this, indices)]
         ELSE LET used == insertUsed(usedFeatures, bestFeature)
                  featureIdx == getColumnIndex(this, bestFeature)
                  keys == groupKeys(this, indices, featureIdx)
              IN  [node EXCEPT
                      !.feature = bestFeature,
                      !.children =
                          [k \in 1..Len(keys) |->
                              [buildTreeAt(this,
                                           groupOf(this, indices, featureIdx, keys[k]),
                                           used, depth + 1)
                                  EXCEPT !.value = keys[k]]]]

buildTree(this, indices, usedFeatures) == buildTreeAt(this, indices, usedFeatures, 0)

\* mutation: a value that no edge has is sent down the first edge
RECURSIVE predictDefaultBranch(_, _)
predictDefaultBranch(node, inst) ==
    IF node = NullNode THEN sUnknown
    ELSE IF node.isLeaf THEN node.prediction
    ELSE IF node.feature \notin DOMAIN inst THEN sUnknown
    ELSE LET featureValue == inst[node.feature]
             hits == {k \in 1..Len(node.children) :
                          node.children[k].value = featureValue}
         IN  IF hits = {} THEN predictDefaultBranch(node.children[1], inst)
             ELSE predictDefaultBranch(
                      node.children[CHOOSE k \in hits : \A o \in hits : k <= o], inst)

RECURSIVE predict(_, _)
predict(node, inst) ==
    IF node = NullNode THEN sUnknown
    ELSE IF node.isLeaf THEN node.prediction
    ELSE IF node.feature \notin DOMAIN inst THEN sUnknown
    ELSE LET featureValue == inst[node.feature]
             hits == {k \in 1..Len(node.children) :
                          node.children[k].value = featureValue}
         IN  IF hits = {} THEN sUnknown
             ELSE predict(node.children[CHOOSE k \in hits : \A o \in hits : k <= o],
                          inst)

train(this, file, target) ==
    LET loaded == loadCSV(this, file)
        self == [this EXCEPT !.targetColumn = target,
                             !.data = loaded.data, !.headers = loaded.headers]
        allIndices == [k \in 1..Len(self.data) |-> k - 1]
    IN  IF ~loaded.ok THEN [ret |-> FALSE, self |-> self]
        ELSE IF self.data = <<>> THEN [ret |-> FALSE, self |-> self]
        ELSE IF getColumnIndex(self, self.targetColumn) = -1
        THEN [ret |-> FALSE, self |-> self]
        ELSE [ret |-> TRUE,
              self |-> [self EXCEPT !.root = buildTree(self, allIndices, {})]]

predictInstance(this, inst) == predict(this.root, inst)

---------------------------------------------------------------------------
\* The callers.

\* what a prediction request wrote to the output
NoPrediction == [kind |-> "none"]
InvalidInput == [kind |-> "invalid"]
Printed(label) == [kind |-> "label", label |-> label]

\* a DecisionTree as its implicit constructor leaves it
Constructed ==
    [data |-> <<>>, headers |-> <<>>, targetColumn |-> sEmpty, root |-> NullNode]

Fresh ==
    /\ data = Constructed.data
    /\ headers = Constructed.headers
    /\ targetColumn = Constructed.targetColumn
    /\ root = Constructed.root
    /\ filename = Unreadable
    /\ targetName = sEmpty
    /\ lastFile = Unreadable
    /\ lastTarget = sEmpty
    /\ result = "none"
    /\ failedBefore = TRUE
    /\ instance = <<>>
    /\ prediction = NoPrediction

\* one call of train on the classifier
CallTrain(file, target) ==
    \E r \in {train(This, file, target)} :
    /\ data' = r.self.data
    /\ headers' = r.self.headers
    /\ targetColumn' = r.self.targetColumn
    /\ root' = r.self.root
    /\ lastFile' = file
    /\ lastTarget' = target
    /\ result' = IF r.ret THEN "true" ELSE "false"
    /\ failedBefore' = (failedBefore /\ result # "true")

\* one call of predictInstance on the classifier
CallPredictInstance(inst) ==
    /\ instance' = inst
    /\ prediction' = Printed(predictInstance(This, inst))
    /\ UNCHANGED <<data, headers, targetColumn, root, lastFile, lastTarget,
                   result, failedBefore>>

Init == Fresh /\ pc = "start"

\* main, lines 415-419: the two lines of input
ReadInput(files) ==
    /\ pc = "start"
    /\ filename' \in files
    /\ targetName' \in Targets
    /\ pc' = "train"
    /\ UNCHANGED <<data, headers, targetColumn, root, lastFile, lastTarget,
                   result, failedBefore, instance, prediction>>

MainRead == ReadInput(Files(MaxMainRows))

\* main, line 421
MainTrain ==
    /\ pc = "train"
    /\ CallTrain(filename, targetName)
    /\ pc' = IF result' = "true" THEN "loop" ELSE "exit"
    /\ UNCHANGED <<filename, targetName, instance, prediction>>

\* main, lines 434-470: a line of input that is not "quit"
MainPredict ==
    /\ pc = "loop"
    /\ \E inst \in Instances :
           IF inst # <<>>
           THEN CallPredictInstance(inst)
           ELSE /\ instance' = inst
                /\ prediction' = InvalidInput
                /\ UNCHANGED <<data, headers, targetColumn, root, lastFile,
                               lastTarget, result, failedBefore>>
    /\ UNCHANGED <<pc, filename, targetName>>

\* main, lines 437-438
MainQuit ==
    /\ pc = "loop"
    /\ pc' = "exit"
    /\ UNCHANGED <<data, headers, targetColumn, root, filename, targetName,
                   lastFile, lastTarget, result, failedBefore, instance,
                   prediction>>

Next == MainRead \/ MainTrain \/ MainPredict \/ MainQuit

Spec == Init /\ [][Next]_vars

\* main up to the training, on the larger tables
ReadTable == ReadInput(Files(MaxRows))

NextTrain == ReadTable \/ MainTrain

SpecTrain == Init /\ [][NextTrain]_vars

\* a client that calls the public methods in any order
InitApi == Fresh /\ pc = "client"

ApiTrain ==
    /\ \E file \in Files(MaxApiRows), target \in Targets :
           /\ Len(data) + Len(file.lines) - 1 <= MaxApiRows
           /\ CallTrain(file, target)
    /\ UNCHANGED <<pc, filename, targetName, instance, prediction>>

ApiPredict ==
    /\ \E inst \in ApiInstances : CallPredictInstance(inst)
    /\ UNCHANGED <<pc, filename, targetName>>

NextApi == ApiTrain \/ ApiPredict

SpecApi == InitApi /\ [][NextApi]_vars

---------------------------------------------------------------------------
\* Reading a tree.

RECURSIVE Nodes(_)
Nodes(node) ==
    IF node = NullNode THEN {}
    ELSE {node} \cup UNION {Nodes(node.children[k]) : k \in 1..Len(node.children)}

IsDecision(node) == ~node.isLeaf

\* a tree without the record of the calls that built it
RECURSIVE Erase(_)
Erase(node) ==
    IF node = NullNode THEN node
    ELSE [feature |-> node.feature, value |-> node.value,
          prediction |-> node.prediction, isLeaf |-> node.isLeaf,
          children |-> [k \in 1..Len(node.children) |-> Erase(node.children[k])]]

\* the classifier holds the tree that the last train call built from data
Trained == result = "true"

Features == {h \in Range(headers) : h # targetColumn}

targetOf(idx) == cell(This, idx, getColumnIndex(This, targetColumn))
valueOf(idx, feature) == cell(This, idx, getColumnIndex(This, feature))

ChildValues(node) == [k \in 1..Len(node.children) |-> node.children[k].value]

---------------------------------------------------------------------------
\* C1.

Matching(node, inst) ==
    IF node.feature \in DOMAIN inst
    THEN {k \in 1..Len(node.children) : node.children[k].value = inst[node.feature]}
    ELSE {}

PredictReturns(unknownLabel) ==
    prediction.kind = "label" =>
    /\ prediction.label = predict(root, instance)
    /\ \A node \in Nodes(root) :
          /\ node.isLeaf => predict(node, instance) = node.prediction
          /\ IsDecision(node) /\ Matching(node, instance) = {}
                => predict(node, instance) = unknownLabel
          /\ IsDecision(node) /\ Matching(node, instance) # {}
                => \E k \in Matching(node, instance) :
                      /\ Matching(node, instance) = {k}
                      /\ predict(node, instance) = predict(node.children[k], instance)

\* C1 as stated: at a Decision node whose feature the instance lacks, or none of
\* whose edge values equals the instance's value, predict returns "unknown"
\* without descending; otherwise it returns what the one matching child
\* returns; at a Leaf it returns the stored label.
C1_PredictUnknownLower == PredictReturns(sunknown)

\* C1 amended: the same, the label returned being "Unknown".
C1_PredictUnknown == PredictReturns(sUnknown)

\* the root decides on a feature the instance has with a value no edge has,
\* differing at most in case from one, and "Unknown" was printed
C1_Witness ==
    /\ pc = "loop"
    /\ IsDecision(root)
    /\ root.feature \in DOMAIN instance
    /\ instance[root.feature] = sUpperA
    /\ \E k \in 1..Len(root.children) : root.children[k].value = sA
    /\ prediction = Printed(sUnknown)

---------------------------------------------------------------------------
\* C2.

featureValues(node) ==
    [k \in 1..Len(node.builtFrom) |-> valueOf(node.builtFrom[k], node.feature)]

\* C2 as stated: the edge values of every Decision node are stored in the
\* order in which they are first met scanning the node's subset upwards.
C2_FirstSeenOrder ==
    Trained =>
        \A node \in Nodes(root) :
            IsDecision(node) => ChildValues(node) = firstSeen(featureValues(node))

\* C2 amended: the edge values of every Decision node are the distinct values
\* of its feature in its subset, stored in increasing order of the strings.
C2_StringOrder ==
    Trained =>
        \A node \in Nodes(root) :
            IsDecision(node) =>
                /\ Range(ChildValues(node)) = Range(featureValues(node))
                /\ \A k \in 1..(Len(node.children) - 1) :
                       StrLess(node.children[k].value, node.children[k + 1].value)

\* a Decision node whose subset meets "b" before "a"
C2_Witness ==
    /\ Trained
    /\ \E node \in Nodes(root) :
          /\ IsDecision(node)
          /\ firstSeen(featureValues(node)) = <<sB, sA>>
          /\ ChildValues(node) = <<sA, sB>>

---------------------------------------------------------------------------
\* C3.

countOf(indices, class) ==
    Cardinality({k \in 1..Len(indices) : targetOf(indices[k]) = class})

firstRowOf(indices, class) ==
    CHOOSE k \in 1..Len(indices) :
        /\ targetOf(indices[k]) = class
        /\ \A o \in 1..(k - 1) : targetOf(indices[o]) # class

classesIn(indices) == {targetOf(indices[k]) : k \in 1..Len(indices)}

\* a Leaf made where the subset is mixed and no column is left to split on
MajorityLeaves ==
    {node \in Nodes(root) :
        /\ node.isLeaf
        /\ node.builtFrom # <<>>
        /\ Cardinality(classesIn(node.builtFrom)) > 1
        /\ Features \subseteq node.builtWith}

IsMajority(node) ==
    /\ node.prediction \in classesIn(node.builtFrom)
    /\ \A c \in classesIn(node.builtFrom) :
           countOf(node.builtFrom, c) <= countOf(node.builtFrom, node.prediction)

Tied(node) ==
    {c \in classesIn(node.builtFrom) \ {node.prediction} :
        countOf(node.builtFrom, c) = countOf(node.builtFrom, node.prediction)}

\* C3 as stated: such a Leaf is labelled with a class of maximal count, and
\* among classes of equal count with the one whose first row comes first.
C3_MajorityFirstRow ==
    Trained =>
        \A node \in MajorityLeaves :
            /\ IsMajority(node)
            /\ \A c \in Tied(node) :
                   firstRowOf(node.builtFrom, node.prediction)
                       < firstRowOf(node.builtFrom, c)

\* C3 amended: such a Leaf is labelled with a class of maximal count, and
\* among classes of equal count with the one least in string order.
C3_MajorityLeastString ==
    Trained =>
        \A node \in MajorityLeaves :
            /\ IsMajority(node)
            /\ \A c \in Tied(node) : StrLess(node.prediction, c)

\* such a Leaf where two classes tie and the greater string comes first
C3_Witness ==
    /\ Trained
    /\ \E node \in MajorityLeaves :
          /\ Tied(node) # {}
          /\ targetOf(node.builtFrom[1]) # node.prediction

---------------------------------------------------------------------------
\* C5.

RECURSIVE UsedIsAncestors(_, _)
UsedIsAncestors(node, ancestors) ==
    /\ node.builtWith = ancestors
    /\ IsDecision(node) =>
          /\ node.feature \notin ancestors
          /\ \A k \in 1..Len(node.children) :
                 UsedIsAncestors(node.children[k], ancestors \cup {node.feature})

\* C5: on no path from the root does a feature label two Decision nodes, and
\* every node is built with exactly the features of the Decision nodes above
\* it, whatever was chosen in the subtrees of its siblings.
C5_UsedPerBranch == Trained => UsedIsAncestors(root, {})

\* two sibling subtrees that both decide on the same feature
C5_Witness ==
    /\ Trained
    /\ \E node \in Nodes(root) : \E j, k \in 1..Len(node.children) :
          /\ j # k
          /\ IsDecision(node.children[j])
          /\ IsDecision(node.children[k])
          /\ node.children[j].feature = node.children[k].feature

---------------------------------------------------------------------------
\* C8.

RECURSIVE CallsGrow(_, _)
CallsGrow(node, decisionsAbove) ==
    /\ decisionsAbove <= Cardinality(Features)
    /\ node.depth <= RecursionLimit
    /\ node.isLeaf \/ node.children # <<>>
    /\ \A k \in 1..Len(node.children) :
          /\ node.builtWith \subseteq node.children[k].builtWith
          /\ node.builtWith # node.children[k].builtWith
          /\ CallsGrow(node.children[k], decisionsAbove + 1)

\* C8: buildTree returns without exhausting the stack, every call it makes
\* to itself has more used features than the caller, and no path holds more
\* Decision nodes than there are columns other than the target.
C8_BuildTerminates == Trained => CallsGrow(root, 0)

\* a path with as many Decision nodes as there are features
C8_Witness ==
    /\ Trained
    /\ \E node \in Nodes(root) :
          /\ node.isLeaf
          /\ node.depth = Cardinality(Features)
          /\ node.depth = Len(headers) - 1

---------------------------------------------------------------------------
\* C10.

Partitions(node) ==
    /\ Len(node.children) = Cardinality(Range(featureValues(node)))
    /\ Range(ChildValues(node)) = Range(featureValues(node))
    /\ \A k \in 1..Len(node.children) :
          /\ node.children[k].builtFrom # <<>>
          /\ Range(node.children[k].builtFrom)
                = {idx \in Range(node.builtFrom) :
                       valueOf(idx, node.feature) = node.children[k].value}
    /\ \A j, k \in 1..Len(node.children) :
          j # k => Range(node.children[j].builtFrom)
                       \cap Range(node.children[k].builtFrom) = {}
    /\ UNION {Range(node.children[k].builtFrom) : k \in 1..Len(node.children)}
          = Range(node.builtFrom)

\* C10: every Decision node has one child for each value its feature takes
\* in its subset, the children's subsets being non-empty, disjoint and
\* covering it; so no node is built from an empty subset and every Leaf is
\* labelled with the target of one of its rows, never with "Unknown".
C10_ChildrenPartition ==
    Trained =>
        \A node \in Nodes(root) :
            /\ node.builtFrom # <<>>
            /\ IsDecision(node) => Partitions(node)
            /\ node.isLeaf =>
                  /\ node.prediction \in classesIn(node.builtFrom)
                  /\ node.prediction # sUnknown

\* a Decision node with two children, one of them holding two rows
C10_Witness ==
    /\ Trained
    /\ \E node \in Nodes(root) :
          /\ IsDecision(node)
          /\ Len(node.children) = 2
          /\ Len(node.children[1].builtFrom) = 2
          /\ node.children[1].isLeaf

---------------------------------------------------------------------------
\* C4.

RECURSIVE Ascending(_)
Ascending(set) ==
    IF set = {} THEN <<>>
    ELSE LET least == CHOOSE x \in set : \A o \in set : x <= o
         IN  <<least>> \o Ascending(set \ {least})

\* the non-empty subsets of the rows, as index vectors
Subsets == {Ascending(set) : set \in (SUBSET (0..(Len(data) - 1))) \ {{}}}

Eligible(usedFeatures) == Features \ usedFeatures

gainOf(indices, feature) == calculateInformationGain(This, indices, feature)

\* C4: findBestFeature returns none exactly when no column other than the
\* target and the used ones exists; otherwise it returns such a column of
\* maximal information gain, the first in header order among those.
C4_BestFeature ==
    Trained =>
        \A indices \in Subsets : \A usedFeatures \in SUBSET Range(headers) :
            LET best == findBestFeature(This, indices, usedFeatures) IN
            /\ best = sEmpty <=> Eligible(usedFeatures) = {}
            /\ Eligible(usedFeatures) # {} =>
                  /\ best \in Eligible(usedFeatures)
                  /\ \A other \in Eligible(usedFeatures) :
                        /\ ~GainGreater(gainOf(indices, other), gainOf(indices, best))
                        /\ getColumnIndex(This, other) < getColumnIndex(This, best)
                              => GainGreater(gainOf(indices, best),
                                             gainOf(indices, other))

---------------------------------------------------------------------------
\* C6.

AllRows == 0..(Len(data) - 1)

Determines(feature) ==
    \A i, j \in AllRows :
        valueOf(i, feature) = valueOf(j, feature) => targetOf(i) = targetOf(j)

\* the instance that gives every feature the value row idx has for it
RowInstance(idx) == [feature \in Features |-> valueOf(idx, feature)]

\* C6: when some feature column determines the target column, the tree that
\* train built predicts for every row of the table that row's target.
C6_RoundTrip ==
    Trained /\ (\E feature \in Features : Determines(feature)) =>
        \A idx \in AllRows : predict(root, RowInstance(idx)) = targetOf(idx)

---------------------------------------------------------------------------
\* C7.

\* C7: a train call returns false when the file cannot be read, has no row
\* after its header, or has no header equal to the target; and a classifier
\* none of whose train calls returned true holds no tree and predicts no
\* label of a training.
C7_FailedTrainNoTree ==
    /\ result = "true" =>
          /\ lastFile.readable
          /\ Len(lastFile.lines) >= 2
          /\ lastTarget \in Range(lastFile.lines[1])
    /\ failedBefore /\ result # "true" =>
          /\ root = NullNode
          /\ prediction.kind = "label" => prediction.label = sUnknown

---------------------------------------------------------------------------
\* C9.

\* C9: a train call that returns true after train calls that all returned
\* false leaves the rows, the headers and the tree that the same call
\* leaves on a newly constructed classifier.
C9_RetrainAsFresh ==
    result = "true" /\ failedBefore =>
        LET once == train(Constructed, lastFile, lastTarget) IN
        /\ once.ret
        /\ data = once.self.data
        /\ headers = once.self.headers
        /\ Erase(root) = Erase(once.self.root)

====
